---- MODULE Spec2Model ----
(***************************************************************************)
(* A model of bfc.py (the compiler to x86-64 assembly, and the program it  *)
(* emits) and of bfi.py (the interpreter).                                 *)
(*                                                                         *)
(* Three processes are modelled, each in a record of its own:              *)
(*   bfc  the BFCompiler object and the locals of compile()                *)
(*   exe  the process running the assembled program: its .data section,    *)
(*        its standard input and output, its exit                          *)
(*   bfi  the interpreter: main(), read_until_char(), interpret()          *)
(* Indices (cursor, pointer, labels) are 0-based as in the source; a       *)
(* sequence s is read at 0-based index i by At(s, i).                      *)
(***************************************************************************)
EXTENDS Integers, Sequences, FiniteSets, TLC

VARIABLES bfc, bfi, exe

vars == <<bfc, bfi, exe>>

(***************************************************************************)
(* Bounds of the model.                                                    *)
(***************************************************************************)
\* Longest source text enumerated exhaustively.
MaxLen == 3
\* Longest standard input enumerated exhaustively (in characters).
MaxIn == 1
\* Longest standard input enumerated when the source itself comes from stdin.
MaxStdin == 3
\* Number of tape cells (--target-size / interpret's cells; 30000 in the source).
Cells == 8
\* Output longer than this is not produced (stops programs that print forever).
MaxOut == 16
\* read_until_char's chunk_size (1024 in the source), scaled to the inputs.
chunk_size == 2

(***************************************************************************)
(* Characters.  A character is a one-character string; "U+00E9" stands for *)
(* a character outside ASCII, whose UTF-8 encoding has two bytes.          *)
(***************************************************************************)
VALID_TOKENS == {"<", ">", "[", "]", ".", ",", "+", "-"}

At(s, i) == s[i + 1]

\* ord(c)
Ord(c) ==
    CASE c = "<" -> 60 [] c = ">" -> 62 [] c = "[" -> 91 [] c = "]" -> 93
      [] c = "." -> 46 [] c = "," -> 44 [] c = "+" -> 43 [] c = "-" -> 45
      [] c = "!" -> 33 [] c = "a" -> 97 [] c = "b" -> 98 [] c = "c" -> 99
      [] c = "U+00E9" -> 233

\* The UTF-8 bytes of the character with code point n (n < 2048)
Utf8(n) == IF n < 128 THEN <<n>> ELSE <<192 + (n \div 64), 128 + (n % 64)>>

\* str.encode(): the UTF-8 bytes of one character
Encode(c) == Utf8(Ord(c))

RECURSIVE EncodeAll(_)
EncodeAll(s) == IF s = <<>> THEN <<>> ELSE Encode(Head(s)) \o EncodeAll(Tail(s))

Min(a, b) == IF a < b THEN a ELSE b

(***************************************************************************)
(* bfc.py: BFCompiler                                                      *)
(***************************************************************************)
\* BFCompiler.normalize
normalize(source_code) == SelectSeq(source_code, LAMBDA c : c \in VALID_TOKENS)

\* The value None, and the empty string "", among instruction texts.  An
\* instruction text is a sequence of instruction groups.
None == <<[op |-> "None"]>>
EmptyText == <<>>

\* PROGRAM_HEADER.format(num_cells, buf_size)
produce_header(self) ==
    <<[op |-> "header", cells |-> self.num_cells,
       buf_size |-> Min(self.num_cells, 1024)]>>

SHIFT_RIGHT_INSTRUCTION(q) == <<[op |-> "addl", n |-> q]>>
SHIFT_LEFT_INSTRUCTION(q) == <<[op |-> "subl", n |-> q]>>
ADD_INSTRUCTION(q) == <<[op |-> "addb", n |-> q]>>
SUB_INSTRUCTION(q) == <<[op |-> "subb", n |-> q]>>

\* __get_label naming the label after label_counter, which __init__ sets to
\* 0 and nothing advances.
get_label_from_counter(index) == <<"tag", 0>>

\* __get_label: "tag_<index>"
get_label(index) == <<"tag", index>>

\* The while loop of __produce_shift_instruction / __produce_mutate_instruction:
\* plus is the token counted +1, the other token of tokens counts -1.
RECURSIVE run_loop(_, _, _)
run_loop(self, tokens, plus) ==
    IF At(self.source, self.cursor) \in tokens
    THEN LET s1 == [self EXCEPT
                       !.consumed = @ + 1,
                       !.quantity = @ + (IF At(self.source, self.cursor) = plus
                                         THEN 1 ELSE -1),
                       !.cursor = @ + 1]
         IN IF s1.cursor = Len(s1.source) THEN s1 ELSE run_loop(s1, tokens, plus)
    ELSE self

\* __produce_shift_instruction emitting a move by 0 for a run that cancels out.
produce_shift_instruction_zero_move(self) ==
    LET s1 == run_loop(self, {"<", ">"}, ">")
    IN [self |-> s1,
        ret |-> IF s1.consumed > 0
                THEN IF s1.quantity >= 0 THEN SHIFT_RIGHT_INSTRUCTION(s1.quantity)
                     ELSE SHIFT_LEFT_INSTRUCTION(-s1.quantity)
                ELSE None]

\* __produce_shift_instruction: [self, ret]
produce_shift_instruction(self) ==
    LET s1 == run_loop(self, {"<", ">"}, ">")
    IN [self |-> s1,
        ret |-> IF s1.consumed > 0
                THEN IF s1.quantity > 0 THEN SHIFT_RIGHT_INSTRUCTION(s1.quantity)
                     ELSE IF s1.quantity < 0 THEN SHIFT_LEFT_INSTRUCTION(-s1.quantity)
                     ELSE EmptyText
                ELSE None]

\* __produce_mutate_instruction: [self, ret]
produce_mutate_instruction(self) ==
    LET s1 == run_loop(self, {"+", "-"}, "+")
    IN [self |-> s1,
        ret |-> IF s1.consumed > 0
                THEN IF s1.quantity > 0 THEN ADD_INSTRUCTION(s1.quantity)
                     ELSE IF s1.quantity < 0 THEN SUB_INSTRUCTION(-s1.quantity)
                     ELSE EmptyText
                ELSE None]

\* The while loop of __lookahead.
RECURSIVE lookahead_loop(_, _, _)
lookahead_loop(source, local_cursor, nest_level) ==
    IF nest_level >= 0 /\ local_cursor < Len(source)
    THEN lookahead_loop(source, local_cursor + 1,
             IF At(source, local_cursor) = "[" THEN nest_level + 1
             ELSE IF At(source, local_cursor) = "]" THEN nest_level - 1
             ELSE nest_level)
    ELSE [local_cursor |-> local_cursor, nest_level |-> nest_level]

\* __lookahead with its raise left out: an unmatched loop-start jumps to the
\* last token.
lookahead_to_end(self) ==
    LET r == lookahead_loop(self.source, self.cursor + 1, 0)
    IN [raise |-> FALSE, label |-> get_label(r.local_cursor - 1)]

\* __lookahead: [raise, label]
lookahead(self) ==
    LET r == lookahead_loop(self.source, self.cursor + 1, 0)
    IN IF r.nest_level < 0
       THEN [raise |-> FALSE, label |-> get_label(r.local_cursor - 1)]
       ELSE [raise |-> TRUE, label |-> get_label(-1)]

\* The loop condition of __lookbehind's while.
lookbehind_continues(local_cursor, nest_level) ==
    nest_level >= 0 /\ local_cursor > 0

\* The while loop of __lookbehind.
RECURSIVE lookbehind_loop(_, _, _)
lookbehind_loop(source, local_cursor, nest_level) ==
    IF lookbehind_continues(local_cursor, nest_level)
    THEN lookbehind_loop(source, local_cursor - 1,
             IF At(source, local_cursor) = "]" THEN nest_level + 1
             ELSE IF At(source, local_cursor) = "[" THEN nest_level - 1
             ELSE nest_level)
    ELSE [local_cursor |-> local_cursor, nest_level |-> nest_level]

\* __lookbehind: [raise, label]
lookbehind(self) ==
    LET r == lookbehind_loop(self.source, self.cursor - 1, 0)
    IN IF r.nest_level < 0
       THEN [raise |-> FALSE, label |-> get_label(r.local_cursor + 1)]
       ELSE [raise |-> TRUE, label |-> get_label(-1)]

\* __produce_loop_start: [raise, ret]
produce_loop_start(self) ==
    LET target == lookahead(self)
    IN [raise |-> target.raise,
        ret |-> <<[op |-> "je", label |-> get_label(self.cursor),
                   target |-> target.label]>>]

\* __produce_loop_end: [raise, ret]
produce_loop_end(self) ==
    LET target == lookbehind(self)
    IN [raise |-> target.raise,
        ret |-> <<[op |-> "jne", label |-> get_label(self.cursor),
                   target |-> target.label]>>]

\* __produce_instruction: [self, ret, raise], raise one of "", "StopIteration",
\* "ValueError"; an exception leaves self as the code had it when it was raised.
produce_instruction(self) ==
    IF self.cursor = Len(self.source)
    THEN [self |-> self, ret |-> None, raise |-> "StopIteration"]
    ELSE
    LET s0 == [self EXCEPT !.consumed = 0, !.quantity = 0]
        sh == produce_shift_instruction(s0)
        mu == produce_mutate_instruction(sh.self)
        s2 == mu.self
        char == At(s2.source, s2.cursor)
        lp == IF char = "[" THEN produce_loop_start(s2) ELSE produce_loop_end(s2)
    IN IF sh.ret # None THEN [self |-> sh.self, ret |-> sh.ret, raise |-> ""]
       ELSE IF mu.ret # None THEN [self |-> mu.self, ret |-> mu.ret, raise |-> ""]
       ELSE IF char \in {"[", "]"}
       THEN IF lp.raise
            THEN [self |-> s2, ret |-> None, raise |-> "ValueError"]
            ELSE [self |-> [s2 EXCEPT !.cursor = @ + 1], ret |-> lp.ret, raise |-> ""]
       ELSE [self |-> [s2 EXCEPT !.cursor = @ + 1],
             ret |-> IF char = "." THEN <<[op |-> "call", target |-> "dotproc"]>>
                     ELSE IF char = "," THEN <<[op |-> "call", target |-> "commaproc"]>>
                     ELSE EmptyText,
             raise |-> ""]

\* BFCompiler(source, size): the object after __init__, with compile() entered
\* (output holds the header; nothing has been returned).
BFCompiler(source, size) ==
    LET self == [source |-> normalize(source), cursor |-> 0, num_cells |-> size,
                 consumed |-> 0, quantity |-> 0]
    IN [source |-> self.source, cursor |-> 0, num_cells |-> size,
        consumed |-> 0, quantity |-> 0,
        output |-> produce_header(self), assembly |-> None, pc |-> "compile"]

\* The compiler is not run.
NoCompiler ==
    [source |-> <<>>, cursor |-> 0, num_cells |-> 0, consumed |-> 0, quantity |-> 0,
     output |-> <<>>, assembly |-> None, pc |-> "off"]

\* compile() with a pass that leaves the cursor where it found it.
compile_step_no_advance(self) ==
    LET r == produce_instruction(self)
    IN IF r.raise = "StopIteration"
       THEN [self EXCEPT
                !.output = @ \o <<[op |-> "call", target |-> "cleanup"]>>,
                !.assembly = self.output \o <<[op |-> "call", target |-> "cleanup"]>>,
                !.pc = "returned"]
       ELSE IF r.raise = "ValueError"
       THEN [r.self EXCEPT !.pc = "raised"]
       ELSE [r.self EXCEPT !.output = @ \o r.ret, !.cursor = self.cursor]

\* compile(): one pass through "while True" from state self.  StopIteration
\* ends the loop ("call cleanup" is added, the text returned); the ValueError
\* of __lookahead / __lookbehind propagates and nothing is returned.
compile_step(self) ==
    LET r == produce_instruction(self)
    IN IF r.raise = "StopIteration"
       THEN [self EXCEPT
                !.output = @ \o <<[op |-> "call", target |-> "cleanup"]>>,
                !.assembly = self.output \o <<[op |-> "call", target |-> "cleanup"]>>,
                !.pc = "returned"]
       ELSE IF r.raise = "ValueError"
       THEN [r.self EXCEPT !.pc = "raised"]
       ELSE [r.self EXCEPT !.output = @ \o r.ret]

\* compile(), run to its end.
RECURSIVE compile(_)
compile(self) == IF self.pc = "compile" THEN compile(compile_step(self)) ELSE self

\* compile(): a pass that adds an instruction text to output.
compile_emit ==
    /\ bfc.pc = "compile"
    /\ produce_instruction(bfc).raise = ""
    /\ bfc' = compile_step(bfc)
    /\ UNCHANGED <<bfi, exe>>

\* compile(): StopIteration; the assembly text is returned.
compile_return ==
    /\ bfc.pc = "compile"
    /\ produce_instruction(bfc).raise = "StopIteration"
    /\ bfc' = compile_step(bfc)
    /\ UNCHANGED <<bfi, exe>>

\* compile(): ValueError.
compile_raise ==
    /\ bfc.pc = "compile"
    /\ produce_instruction(bfc).raise = "ValueError"
    /\ bfc' = compile_step(bfc)
    /\ UNCHANGED <<bfi, exe>>

(***************************************************************************)
(* bfi.py: the interpreter                                                 *)
(***************************************************************************)
\* io_rebuffer: _iobuf.extend(list(unused)); the elements are characters (str)
io_rebuffer(iobuf, unused) == iobuf \o unused

\* sys.stdin.read(n): [data, stdin]
stdin_read(stdin, n) ==
    [data |-> SubSeq(stdin, 1, Min(n, Len(stdin))),
     stdin |-> SubSeq(stdin, Min(n, Len(stdin)) + 1, Len(stdin))]

\* io_getchar: [raise, kind, char, iobuf, stdin].  A value taken from _iobuf is
\* the character itself (kind "str"); a value read from stdin is ord(raw)
\* (kind "int").
io_getchar(iobuf, stdin) ==
    IF iobuf # <<>>
    THEN [raise |-> "", kind |-> "str", char |-> Ord(Head(iobuf)),
          iobuf |-> Tail(iobuf), stdin |-> stdin]
    ELSE LET r == stdin_read(stdin, 1)
             raw == EncodeAll(r.data)
         IN IF Len(raw) > 1
            THEN [raise |-> "interpreter does not accept multibyte characters",
                  kind |-> "int", char |-> 0, iobuf |-> iobuf, stdin |-> r.stdin]
            ELSE IF Len(raw) = 0
            THEN [raise |-> "reached eof when scanning for input",
                  kind |-> "int", char |-> 0, iobuf |-> iobuf, stdin |-> r.stdin]
            ELSE [raise |-> "", kind |-> "int", char |-> raw[1],
                  iobuf |-> iobuf, stdin |-> r.stdin]

\* tag_lookahead's while loop: [raise, cursor]
RECURSIVE tag_lookahead_loop(_, _, _)
tag_lookahead_loop(source, cursor, nest_level) ==
    IF cursor < Len(source)
    THEN LET char == At(source, cursor)
             n1 == IF char = "[" THEN nest_level + 1
                   ELSE IF char = "]" THEN nest_level - 1 ELSE nest_level
         IN IF char = "]" /\ n1 = 0
            THEN [raise |-> FALSE, cursor |-> cursor]
            ELSE tag_lookahead_loop(source, cursor + 1, n1)
    ELSE [raise |-> TRUE, cursor |-> cursor]

\* tag_lookahead without the nesting count: the first loop-end behind index.
tag_lookahead_first_close(source, index) ==
    LET closes == {c \in index + 1 .. Len(source) - 1 : At(source, c) = "]"}
    IN IF closes = {}
       THEN [raise |-> TRUE, index |-> index, cursor |-> Len(source)]
       ELSE [raise |-> FALSE, index |-> index,
             cursor |-> CHOOSE c \in closes : \A d \in closes : c <= d]

\* tag_lookahead naming the place where the scan stopped, not the bracket.
tag_lookahead_reports_cursor(source, index) ==
    LET r == tag_lookahead_loop(source, index + 1, 1)
    IN [raise |-> r.raise, index |-> r.cursor, cursor |-> r.cursor]

\* tag_lookahead: [raise, index, cursor]; the error raised is
\* "mismatched bracket at index <index>"
tag_lookahead(source, index) ==
    LET r == tag_lookahead_loop(source, index + 1, 1)
    IN [raise |-> r.raise, index |-> index, cursor |-> r.cursor]

\* tags[k] = v
Put(tags, k, v) ==
    [x \in DOMAIN tags \cup {k} |-> IF x = k THEN v ELSE tags[x]]

\* construct_tags' for loop from index on: [raise, index, tags]
RECURSIVE construct_tags_loop(_, _, _)
construct_tags_loop(source, index, tags) ==
    IF index < Len(source)
    THEN IF At(source, index) = "["
         THEN LET next_index == tag_lookahead(source, index)
              IN IF next_index.raise
                 THEN [raise |-> TRUE, index |-> next_index.index, tags |-> tags]
                 ELSE construct_tags_loop(source, index + 1,
                          Put(Put(tags, index, next_index.cursor),
                              next_index.cursor, index))
         ELSE IF At(source, index) = "]" /\ index \notin DOMAIN tags
         THEN [raise |-> TRUE, index |-> index, tags |-> tags]
         ELSE construct_tags_loop(source, index + 1, tags)
    ELSE [raise |-> FALSE, index |-> -1, tags |-> tags]

\* construct_tags: [raise, index, tags]
construct_tags(source) == construct_tags_loop(source, 0, <<>>)

\* clean_source with a token missing from its VALID_TOKENS.
clean_source_without_comma(source) ==
    SelectSeq(source, LAMBDA c : c \in VALID_TOKENS \ {","})

\* clean_source
clean_source(source) == SelectSeq(source, LAMBDA c : c \in VALID_TOKENS)

\* No file was named on the command line (options.source is None).
NoFile == <<"None">>

\* The interpreter process at the start of main(): file is the text of the
\* source file (or NoFile), stdin what standard input will deliver.  input
\* keeps what standard input held at the start, getchars counts the calls of
\* io_getchar.
Interpreter(file, stdin, cells) ==
    [pc |-> "main", file |-> file, input |-> stdin, stdin |-> stdin,
     cells |-> cells, getchars |-> 0,
     result |-> <<>>, chunk |-> <<>>, iobuf |-> <<>>,
     raw |-> <<>>, source |-> <<>>, loop_tags |-> <<>>,
     machine |-> [i \in 0 .. cells - 1 |-> 0], pointer |-> 0, cursor |-> 0,
     stdout |-> <<>>, stderr |-> "", index |-> -1, status |-> -1]

\* The interpreter is not run.
NoInterpreter == [Interpreter(NoFile, <<>>, 0) EXCEPT !.pc = "off"]

\* main() catches InterpreterError: "fatal: <message>" on stderr, exit status 1.
fatal(self, message) ==
    [self EXCEPT !.pc = "exited", !.stderr = message, !.status = 1]

\* main(): a source file was named; its text is read.
main_file ==
    /\ bfi.pc = "main"
    /\ bfi.file # NoFile
    /\ bfi' = [bfi EXCEPT !.raw = bfi.file, !.pc = "interpret"]
    /\ UNCHANGED <<bfc, exe>>

\* main(): no source file; read_until_char('!') reads its first chunk.
read_until_char_begin ==
    /\ bfi.pc = "main"
    /\ bfi.file = NoFile
    /\ LET r == stdin_read(bfi.stdin, chunk_size)
       IN bfi' = [bfi EXCEPT !.result = <<>>, !.chunk = r.data,
                             !.stdin = r.stdin, !.pc = "read"]
    /\ UNCHANGED <<bfc, exe>>

Contains(s, char) == \E i \in 1 .. Len(s) : s[i] = char

\* result.index(char), 0-based
IndexOf(s, char) == CHOOSE i \in 0 .. Len(s) - 1 :
                        /\ At(s, i) = char
                        /\ \A j \in 0 .. i - 1 : At(s, j) # char

\* What read_until_char hands to io_rebuffer.
rebuffered(result, first_occurrence) ==
    SubSeq(result, first_occurrence + 1, Len(result))

\* read_until_char: one iteration of "while char not in result".
read_until_char_loop ==
    /\ bfi.pc = "read"
    /\ ~Contains(bfi.result, "!")
    /\ LET r == stdin_read(bfi.stdin, chunk_size)
       IN bfi' = [bfi EXCEPT !.result = @ \o bfi.chunk, !.chunk = r.data,
                             !.stdin = r.stdin]
    /\ UNCHANGED <<bfc, exe>>

\* read_until_char: the sentinel is in result; the text from it on is
\* rebuffered, the text before it returned as the source.
read_until_char_return ==
    /\ bfi.pc = "read"
    /\ Contains(bfi.result, "!")
    /\ LET result == bfi.result \o bfi.chunk
           first_occurrence == IndexOf(result, "!")
       IN bfi' = [bfi EXCEPT
                     !.iobuf = io_rebuffer(@, rebuffered(result, first_occurrence)),
                     !.result = SubSeq(result, 1, first_occurrence),
                     !.raw = SubSeq(result, 1, first_occurrence),
                     !.chunk = <<>>,
                     !.pc = "interpret"]
    /\ UNCHANGED <<bfc, exe>>

\* interpret(): clean_source, construct_tags, the zeroed machine.
interpret_begin ==
    /\ bfi.pc = "interpret"
    /\ LET source == clean_source(bfi.raw)
           loop_tags == construct_tags(source)
       IN bfi' = IF loop_tags.raise
                 THEN [fatal(bfi, "mismatched bracket at index")
                          EXCEPT !.source = source, !.index = loop_tags.index]
                 ELSE [bfi EXCEPT !.source = source, !.loop_tags = loop_tags.tags,
                                  !.machine = [i \in 0 .. bfi.cells - 1 |-> 0],
                                  !.pointer = 0, !.cursor = 0, !.pc = "run"]
    /\ UNCHANGED <<bfc, exe>>

\* The interpreter's loop stands on token char.
at_token(char) ==
    /\ bfi.pc = "run"
    /\ bfi.cursor < Len(bfi.source)
    /\ At(bfi.source, bfi.cursor) = char

\* case ">" with the bound checked one cell late (pointer > cells).
step_right_late ==
    /\ at_token(">")
    /\ LET pointer == bfi.pointer + 1
       IN bfi' = IF pointer > bfi.cells
                 THEN [fatal(bfi, "pointer out of range")
                          EXCEPT !.pointer = pointer, !.index = bfi.cells]
                 ELSE [bfi EXCEPT !.pointer = pointer, !.cursor = @ + 1]
    /\ UNCHANGED <<bfc, exe>>

\* case ">"
step_right ==
    /\ at_token(">")
    /\ LET pointer == bfi.pointer + 1
       IN bfi' = IF pointer = bfi.cells
                 THEN [fatal(bfi, "pointer out of range")
                          EXCEPT !.pointer = pointer, !.index = bfi.cells]
                 ELSE [bfi EXCEPT !.pointer = pointer, !.cursor = @ + 1]
    /\ UNCHANGED <<bfc, exe>>

\* case "<"
step_left ==
    /\ at_token("<")
    /\ LET pointer == bfi.pointer - 1
       IN bfi' = IF pointer < 0
                 THEN [fatal(bfi, "pointer out of range")
                          EXCEPT !.pointer = pointer, !.index = -1]
                 ELSE [bfi EXCEPT !.pointer = pointer, !.cursor = @ + 1]
    /\ UNCHANGED <<bfc, exe>>

\* case "+"
step_plus ==
    /\ at_token("+")
    /\ bfi' = [bfi EXCEPT !.machine[bfi.pointer] = (@ + 1) % 256, !.cursor = @ + 1]
    /\ UNCHANGED <<bfc, exe>>

\* case "-"
step_minus ==
    /\ at_token("-")
    /\ bfi' = [bfi EXCEPT !.machine[bfi.pointer] = (@ - 1) % 256, !.cursor = @ + 1]
    /\ UNCHANGED <<bfc, exe>>

\* case "["
step_loop_start ==
    /\ at_token("[")
    /\ bfi' = [bfi EXCEPT !.cursor = (IF bfi.machine[bfi.pointer] = 0
                                      THEN bfi.loop_tags[bfi.cursor] ELSE @) + 1]
    /\ UNCHANGED <<bfc, exe>>

\* case "]" with its test inverted: the jump is taken when the cell is 0.
step_loop_end_inverted ==
    /\ at_token("]")
    /\ bfi' = [bfi EXCEPT !.cursor = (IF bfi.machine[bfi.pointer] = 0
                                      THEN bfi.loop_tags[bfi.cursor] ELSE @) + 1]
    /\ UNCHANGED <<bfc, exe>>

\* case "]"
step_loop_end ==
    /\ at_token("]")
    /\ bfi' = [bfi EXCEPT !.cursor = (IF bfi.machine[bfi.pointer] # 0
                                      THEN bfi.loop_tags[bfi.cursor] ELSE @) + 1]
    /\ UNCHANGED <<bfc, exe>>

\* case ".": sys.stdout.write(chr(machine[pointer])), UTF-8 on the way out
step_dot ==
    /\ at_token(".")
    /\ Len(bfi.stdout) < MaxOut
    /\ bfi' = [bfi EXCEPT !.stdout = @ \o Utf8(bfi.machine[bfi.pointer]),
                          !.cursor = @ + 1]
    /\ UNCHANGED <<bfc, exe>>

\* case ",": machine[pointer] = io_getchar(); a bytearray takes an int only,
\* a str raises TypeError, which main() does not catch.
step_comma ==
    /\ at_token(",")
    /\ LET r == io_getchar(bfi.iobuf, bfi.stdin)
           s1 == [bfi EXCEPT !.iobuf = r.iobuf, !.stdin = r.stdin,
                             !.getchars = @ + 1]
       IN bfi' = IF r.raise # "" THEN fatal(s1, r.raise)
                 ELSE IF r.kind = "str"
                 THEN [s1 EXCEPT !.pc = "exited", !.stderr = "TypeError", !.status = 1]
                 ELSE [s1 EXCEPT !.machine[bfi.pointer] = r.char, !.cursor = @ + 1]
    /\ UNCHANGED <<bfc, exe>>

\* interpret() returns: the cursor is past the last token; exit status 0.
interpret_return ==
    /\ bfi.pc = "run"
    /\ ~(bfi.cursor < Len(bfi.source))
    /\ bfi' = [bfi EXCEPT !.pc = "exited", !.status = 0]
    /\ UNCHANGED <<bfc, exe>>

(***************************************************************************)
(* The assembled program (bfc.py's PROGRAM_HEADER and instruction          *)
(* templates), as a process.  Its .data section is one run of bytes, mem,  *)
(* indexed by the offset from region: has_read at -1, region at            *)
(* 0 .. cells-1, pointer (.long, little-endian) at cells .. cells+3,       *)
(* abort_message behind it.                                                *)
(***************************************************************************)
\* .string "abort: pointer out of range" (with its terminating zero byte)
abort_message ==
    <<97, 98, 111, 114, 116, 58, 32, 112, 111, 105, 110, 116, 101, 114, 32,
      111, 117, 116, 32, 111, 102, 32, 114, 97, 110, 103, 101, 0>>

\* abort_message_len = (. - abort_message)
abort_message_len == Len(abort_message)

has_read == -1
pointer_at(e) == e.cells
abort_message_at(e) == e.cells + 4

\* The .data section as the header lays it out, before _start.
data_section(cells) ==
    [off \in -1 .. cells + 4 + abort_message_len - 1 |->
        IF off >= cells + 4 THEN abort_message[off - (cells + 4) + 1] ELSE 0]

\* The .long at [pointer], as the signed 32-bit number that cmpl and the
\* address arithmetic see.
pointer_of(e) ==
    LET b3 == e.mem[e.cells + 3]
    IN e.mem[e.cells] + 256 * e.mem[e.cells + 1] + 65536 * e.mem[e.cells + 2]
       + 16777216 * (IF b3 >= 128 THEN b3 - 256 ELSE b3)

\* mem after addl $delta, [pointer]: a 32-bit addition, byte by byte with
\* the carry, wrapping at 2^32.
add_pointer(e, delta) ==
    LET s0 == e.mem[e.cells] + delta
        s1 == e.mem[e.cells + 1] + (s0 \div 256)
        s2 == e.mem[e.cells + 2] + (s1 \div 256)
        s3 == e.mem[e.cells + 3] + (s2 \div 256)
    IN [e.mem EXCEPT ![e.cells] = s0 % 256,
                     ![e.cells + 1] = s1 % 256,
                     ![e.cells + 2] = s2 % 256,
                     ![e.cells + 3] = s3 % 256]

\* The comparison after a move: cmpl $-1, [pointer]; je abort
shift_aborts(p) == p = -1

\* addl/subl $n, [pointer]; cmpl $-1, [pointer]; je abort
exec_shift(e, delta) ==
    LET mem == add_pointer(e, delta)
        e1 == [e EXCEPT !.mem = mem]
    IN IF shift_aborts(pointer_of(e1))
       THEN [e1 EXCEPT !.pc = "abort"]
       ELSE [e1 EXCEPT !.ip = @ + 1]

\* The byte address region + pointer lies in the .data section.
in_data(e) == pointer_of(e) \in DOMAIN e.mem

\* An access outside the .data section: what follows is up to the build.
fault(e) == [e EXCEPT !.pc = "fault"]

\* addb/subb that stops at 0 and at 255 where the byte addition wraps.
exec_mutate_saturating(e, delta) ==
    IF in_data(e)
    THEN [e EXCEPT !.mem[pointer_of(e)] =
                       IF @ + delta > 255 THEN 255
                       ELSE IF @ + delta < 0 THEN 0 ELSE @ + delta,
                   !.ip = @ + 1]
    ELSE fault(e)

\* lea [region], %eax; add [pointer], %eax; addb/subb $n, (%eax)
exec_mutate(e, delta) ==
    IF in_data(e)
    THEN [e EXCEPT !.mem[pointer_of(e)] = (@ + delta) % 256, !.ip = @ + 1]
    ELSE fault(e)

\* The index in the program of the group that defines label.
label_index(program, label) ==
    CHOOSE k \in 1 .. Len(program) :
        program[k].op \in {"je", "jne"} /\ program[k].label = label

\* <label>: cmpb $0, (region + pointer); je/jne <target>
exec_loop(e, g) ==
    IF in_data(e)
    THEN IF (g.op = "je") = (e.mem[pointer_of(e)] = 0)
         THEN [e EXCEPT !.ip = label_index(e.program, g.target)]
         ELSE [e EXCEPT !.ip = @ + 1]
    ELSE fault(e)

\* dotproc: write(1, region + pointer, 1)
dotproc(e) ==
    IF in_data(e)
    THEN [e EXCEPT !.stdout = Append(@, e.mem[pointer_of(e)]), !.ip = @ + 1]
    ELSE fault(e)

\* mem with the bytes of data stored from offset off on
RECURSIVE store_bytes(_, _, _)
store_bytes(mem, off, data) ==
    IF data = <<>> THEN mem
    ELSE store_bytes([mem EXCEPT ![off] = Head(data)], off + 1, Tail(data))

\* movq $1, [has_read]: a quad-word (8-byte) store of the value 1, least
\* significant byte first, at the address of has_read
store_has_read(e) == store_bytes(e.mem, has_read, <<1, 0, 0, 0, 0, 0, 0, 0>>)

\* commaproc: movq $1, [has_read]; read(0, region + pointer, 1)
commaproc(e) ==
    LET e1 == [e EXCEPT !.mem = store_has_read(e), !.commas = TRUE]
    IN IF in_data(e1)
       THEN IF e1.stdin = <<>>
            THEN [e1 EXCEPT !.ip = @ + 1]
            ELSE [e1 EXCEPT !.mem[pointer_of(e1)] = Head(e1.stdin),
                            !.stdin = Tail(@), !.ip = @ + 1]
       ELSE fault(e1)

\* cleanup without its test of has_read: the input is always drained.
cleanup_always_drains(e) == [e EXCEPT !.pc = "clearbuf"]

\* cleanup: cmpb $1, [has_read]; jne exit
cleanup(e) ==
    IF e.mem[has_read] = 1 THEN [e EXCEPT !.pc = "clearbuf"]
    ELSE [e EXCEPT !.pc = "exit"]

\* clearbuf: read(0, region, buf_size); cmp buf_size, %rax; je clearbuf
clearbuf(e) ==
    LET rax == Min(e.buf_size, Len(e.stdin))
    IN [e EXCEPT !.mem = store_bytes(@, 0, SubSeq(e.stdin, 1, rax)),
                 !.stdin = SubSeq(@, rax + 1, Len(@)),
                 !.drains = @ + 1,
                 !.pc = IF rax = e.buf_size THEN "clearbuf" ELSE "exit"]

\* The status the exit routine passes to the exit system call (%rdi).
exit_status == 0

\* exit: movq $0, %rdi; movq $60, %rax; syscall
exit(e) == [e EXCEPT !.pc = "exited", !.status = exit_status]

\* abort: write(1, abort_message, abort_message_len); jmp exit
abort(e) ==
    [e EXCEPT !.stdout = @ \o [k \in 1 .. abort_message_len |->
                                   e.mem[abort_message_at(e) + k - 1]],
              !.aborted = TRUE,
              !.pc = "exit"]

\* The process started on the assembled text: _start is the first group
\* behind the header.  commas (commaproc was called), drains (the reads of
\* clearbuf) and aborted (the abort routine ran) record what has happened.
Process(assembly, stdin) ==
    [pc |-> "run", program |-> assembly, ip |-> 2,
     cells |-> assembly[1].cells, buf_size |-> assembly[1].buf_size,
     mem |-> data_section(assembly[1].cells),
     stdin |-> stdin, stdout |-> <<>>, status |-> -1,
     commas |-> FALSE, drains |-> 0, aborted |-> FALSE]

\* No program is run.
NoProcess ==
    [pc |-> "off", program |-> <<>>, ip |-> 0, cells |-> 0, buf_size |-> 0,
     mem |-> <<>>, stdin |-> <<>>, stdout |-> <<>>, status |-> -1,
     commas |-> FALSE, drains |-> 0, aborted |-> FALSE]

\* The group the process stands on.
group == exe.program[exe.ip]

at_group(ops) == exe.pc = "run" /\ group.op \in ops

run_addl ==
    /\ at_group({"addl"})
    /\ exe' = exec_shift(exe, group.n)
    /\ UNCHANGED <<bfc, bfi>>

run_subl ==
    /\ at_group({"subl"})
    /\ exe' = exec_shift(exe, -group.n)
    /\ UNCHANGED <<bfc, bfi>>

run_addb ==
    /\ at_group({"addb"})
    /\ exe' = exec_mutate(exe, group.n)
    /\ UNCHANGED <<bfc, bfi>>

run_subb ==
    /\ at_group({"subb"})
    /\ exe' = exec_mutate(exe, -group.n)
    /\ UNCHANGED <<bfc, bfi>>

run_loop_start ==
    /\ at_group({"je"})
    /\ exe' = exec_loop(exe, group)
    /\ UNCHANGED <<bfc, bfi>>

run_loop_end ==
    /\ at_group({"jne"})
    /\ exe' = exec_loop(exe, group)
    /\ UNCHANGED <<bfc, bfi>>

run_dotproc ==
    /\ at_group({"call"})
    /\ group.target = "dotproc"
    /\ Len(exe.stdout) < MaxOut
    /\ exe' = dotproc(exe)
    /\ UNCHANGED <<bfc, bfi>>

run_commaproc ==
    /\ at_group({"call"})
    /\ group.target = "commaproc"
    /\ exe' = commaproc(exe)
    /\ UNCHANGED <<bfc, bfi>>

run_cleanup ==
    /\ at_group({"call"})
    /\ group.target = "cleanup"
    /\ exe' = cleanup(exe)
    /\ UNCHANGED <<bfc, bfi>>

run_clearbuf ==
    /\ exe.pc = "clearbuf"
    /\ exe' = clearbuf(exe)
    /\ UNCHANGED <<bfc, bfi>>

run_abort ==
    /\ exe.pc = "abort"
    /\ exe' = abort(exe)
    /\ UNCHANGED <<bfc, bfi>>

run_exit ==
    /\ exe.pc = "exit"
    /\ exe' = exit(exe)
    /\ UNCHANGED <<bfc, bfi>>

\* After an access outside the .data section the process is killed by
\* SIGSEGV (status 139), or goes on in a way this model does not follow.
run_fault ==
    /\ exe.pc = "fault"
    /\ \E outcome \in {"segv", "undefined"} :
           exe' = [exe EXCEPT !.pc = outcome,
                              !.status = IF outcome = "segv" THEN 139 ELSE -1]
    /\ UNCHANGED <<bfc, bfi>>

(***************************************************************************)
(* Inputs.                                                                 *)
(***************************************************************************)
\* The sequences over S of length at most n
Texts(S, n) == UNION {[1 .. k -> S] : k \in 0 .. n}

\* The characters of source texts: the eight tokens and a comment character.
SourceChars == VALID_TOKENS \cup {"!"}

\* The characters of the program's input.
InputChars == {"a", "U+00E9"}

\* The characters of a standard input that holds the source and the input.
StdinChars == {",", ".", "+", "!", "a"}

\* A program that prints "A": 8 * 8 + 1 = 65.
PrintA ==
    <<"+", "+", "+", "+", "+", "+", "+", "+", "[", ">", "+", "+", "+", "+",
      "+", "+", "+", "+", "<", "-", "]", ">", "+", ".">>

\* An input longer than two of clearbuf's chunks.
LongInput == [i \in 1 .. 2 * Cells + 1 |-> "a"]

\* Longer programs, each with an input: <<source, input>>.
Scenarios ==
    { <<PrintA, <<>>>>,
      <<<<"+", "[", "-", "]">>, <<>>>>,
      <<<<"+", "[", "+", "]">>, <<>>>>,
      <<<<"-", "[", "-", "]">>, <<>>>>,
      <<<<"+", "[", ".", "]">>, <<>>>>,
      <<<<"+", "[", ">", "+", "]">>, <<>>>>,
      <<<<"-", "[", ">", "-", "]">>, <<>>>>,
      <<<<"-", "[", ",", "-", "]">>, <<"a">>>>,
      <<<<",", "[", ".", ",", "]">>, <<"a", "a">>>>,
      <<<<",", ".", ",", ".", ",", ".">>, <<"a", "b", "c">>>>,
      <<<<",", ".", ",", ".", ",", ".", ",">>, <<"a", "b", "c">>>>,
      <<<<"[", "[", "]", "]">>, <<>>>>,
      <<<<"[", "]", "[", "]">>, <<>>>>,
      <<<<"+", "[", "[", "-", "]", "]">>, <<>>>>,
      <<<<"[", "[", "]", "[", "]", "]">>, <<>>>>,
      <<<<"+", "[", "[", "-", "]", "+", "[", "-", "]", "]">>, <<>>>>,
      <<<<"[", "[", "]">>, <<>>>>,
      <<<<"[", "]", "]">>, <<>>>>,
      <<<<"[", "]", "]", "[">>, <<>>>>,
      <<<<"+", "[", "]", "]">>, <<>>>>,
      <<<<">", ">", "<", "<">>, <<>>>>,
      <<<<"<", "<", ">", ">">>, <<>>>>,
      <<<<"<", ">", "<", ".">>, <<>>>>,
      <<<<"+", "+", "-", "-">>, <<>>>>,
      <<<<"+", "+", ">", "+", "+", "+", "[", "<", "+", ">", "-", "]", "<", ".">>, <<>>>>,
      <<<<"+", ">", ",", "<", ".">>, <<"a">>>>,
      <<<<">", ">", ">", ">", ">", ">", ">", ">">>, <<>>>>,
      <<<<">", ">", ">", ">", ">", ">", ">", ">", ">">>, <<>>>>,
      <<<<">", ">", ">", ">", ">", ">", ">", ">", ">", ">">>, <<>>>>,
      <<<<">", "+", "<", "<", ".">>, <<>>>>,
      <<<<">", ",", "<", "<", ".">>, <<"a">>>>,
      <<<<"[", ".", "]", "+", "+", "[", ".", "-", "]">>, <<>>>>,
      <<<<",">>, LongInput>>,
      <<<<"+", ".">>, LongInput>> }

\* The <<source, input>> pairs the tools are run on.
Runs ==
    {<<source, input>> : source \in Texts(SourceChars, MaxLen),
                         input \in Texts(InputChars, MaxIn)}
    \cup Scenarios

(***************************************************************************)
(* Specifications.                                                         *)
(***************************************************************************)
\* The compiler alone: BFCompiler(source, size).compile()
InitCompile ==
    /\ \E source \in {run[1] : run \in Runs} : bfc = BFCompiler(source, Cells)
    /\ bfi = NoInterpreter
    /\ exe = NoProcess

NextCompile ==
    \/ compile_emit
    \/ compile_return
    \/ compile_raise

SpecCompile == InitCompile /\ [][NextCompile]_vars

\* compile() is a sequential loop in a single thread: while a pass is
\* possible, one is taken.  The sources are those of Runs of at most
\* MaxLen + 2 tokens.
InitCompileFair ==
    /\ \E source \in {run[1] : run \in {r \in Runs : Len(r[1]) <= MaxLen + 2}} :
          bfc = BFCompiler(source, Cells)
    /\ bfi = NoInterpreter
    /\ exe = NoProcess

SpecCompileFair == InitCompileFair /\ [][NextCompile]_vars /\ WF_vars(NextCompile)

\* The interpreter alone, on a source file or with the source on stdin.
InitInterp ==
    /\ bfc = NoCompiler
    /\ \/ \E run \in Runs : bfi = Interpreter(run[1], run[2], Cells)
       \/ \E stdin \in Texts(StdinChars, MaxStdin) :
              bfi = Interpreter(NoFile, stdin, Cells)
    /\ exe = NoProcess

NextInterpret ==
    \/ interpret_begin
    \/ step_right
    \/ step_left
    \/ step_plus
    \/ step_minus
    \/ step_loop_start
    \/ step_loop_end
    \/ step_dot
    \/ step_comma
    \/ interpret_return

NextInterp ==
    \/ main_file
    \/ read_until_char_begin
    \/ read_until_char_loop
    \/ read_until_char_return
    \/ NextInterpret

SpecInterp == InitInterp /\ [][NextInterp]_vars

\* main() up to the call of interpret(), with the source on standard input.
\* read_until_char is a sequential loop: while an iteration changes
\* anything, it is taken.
InitRead ==
    /\ bfc = NoCompiler
    /\ \E stdin \in Texts(StdinChars, MaxStdin) :
          bfi = Interpreter(NoFile, stdin, Cells)
    /\ exe = NoProcess

NextRead ==
    \/ read_until_char_begin
    \/ read_until_char_loop
    \/ read_until_char_return

SpecReadFair == InitRead /\ [][NextRead]_vars /\ WF_vars(NextRead)

\* The assembled program alone.  bfc is the compiler after compile(); a
\* source on which compile() raises yields no program.
InitRun ==
    /\ \E run \in Runs :
          /\ bfc = compile(BFCompiler(run[1], Cells))
          /\ bfc.pc = "returned"
          /\ exe = Process(bfc.assembly, EncodeAll(run[2]))
    /\ bfi = NoInterpreter

NextRun ==
    \/ run_addl
    \/ run_subl
    \/ run_addb
    \/ run_subb
    \/ run_loop_start
    \/ run_loop_end
    \/ run_dotproc
    \/ run_commaproc
    \/ run_cleanup
    \/ run_clearbuf
    \/ run_abort
    \/ run_exit
    \/ run_fault

SpecRun == InitRun /\ [][NextRun]_vars

\* Both backends on the same source and the same input: the assembled
\* program runs first, the interpreter after it has ended.  (They are
\* separate processes and share nothing; the order only keeps the two runs
\* from being interleaved.)
Init ==
    \E run \in Runs :
        /\ bfc = compile(BFCompiler(run[1], Cells))
        /\ exe = IF bfc.pc = "returned"
                 THEN Process(bfc.assembly, EncodeAll(run[2])) ELSE NoProcess
        /\ bfi = Interpreter(run[1], run[2], Cells)

ended(e) == e.pc \in {"off", "exited", "segv", "undefined"}

interpret_after_run ==
    /\ ended(exe)
    /\ (main_file \/ NextInterpret)

Next ==
    \/ NextRun
    \/ interpret_after_run

Spec == Init /\ [][Next]_vars

(***************************************************************************)
(* The claims.                                                             *)
(***************************************************************************)
\* The number of tokens c among the first k of s
Count(s, c, k) == Cardinality({i \in 1 .. k : s[i] = c})

\* s is well-formed: no prefix closes more loops than it opened, and every
\* loop is closed at the end.
Balanced(s) ==
    /\ \A k \in 0 .. Len(s) : Count(s, "[", k) >= Count(s, "]", k)
    /\ Count(s, "[", Len(s)) = Count(s, "]", Len(s))

\* The 0-based indices of the loop tokens of s
Brackets(s) == {i \in 0 .. Len(s) - 1 : At(s, i) \in {"[", "]"}}

\* C1: for a well-formed program and any input, once the assembled program
\* and the interpreter have both ended, they have written the same bytes to
\* standard output.
C1_SameOutput ==
    (/\ Balanced(clean_source(bfi.file))
     /\ exe.pc = "exited"
     /\ bfi.pc = "exited")
    => exe.stdout = bfi.stdout

\* C2: for a well-formed program the compiler's bracket scan never raises,
\* and every loop group it has emitted agrees with construct_tags' map M: the
\* group of a loop-start at i is labelled tag_i and jumps if zero to
\* tag_M[i], the group of a loop-end at j is labelled tag_j and jumps if
\* nonzero to tag_M[j].
C2_ScanAgreesWithTags ==
    Balanced(bfc.source) =>
        /\ bfc.pc # "raised"
        /\ LET M == construct_tags(bfc.source).tags
           IN \A k \in 1 .. Len(bfc.output) :
                 LET g == bfc.output[k]
                 IN g.op \in {"je", "jne"} =>
                       /\ g.label[2] \in DOMAIN M
                       /\ g.target = get_label(M[g.label[2]])
                       /\ (g.op = "je") = (At(bfc.source, g.label[2]) = "[")

\* C3: whenever a pointer-move group leaves the pointer cell below 0, the
\* program goes to the abort routine: no later instruction group executes.
C3_UnderflowCaught ==
    [][(at_group({"addl", "subl"}) /\ pointer_of(exe') < 0)
          => exe'.pc = "abort"]_vars

\* C4: when the program has ended after its abort routine ran, it has printed
\* the abort message and its exit status is not 0.
C4_AbortExitsNonzero ==
    (exe.aborted /\ exe.pc = "exited") =>
        /\ Len(exe.stdout) >= abort_message_len
        /\ SubSeq(exe.stdout, Len(exe.stdout) - abort_message_len + 1,
                  Len(exe.stdout)) = abort_message
        /\ exe.status # 0

\* The token runs behind the groups that compile() emits from state self on,
\* in order: the run of source tokens each emitted group stands for.
RECURSIVE emitted_runs(_)
emitted_runs(self) ==
    LET r == produce_instruction(self)
    IN IF r.raise # "" THEN <<>>
       ELSE (IF r.ret = EmptyText THEN <<>>
             ELSE <<SubSeq(self.source, self.cursor + 1, r.self.cursor)>>)
            \o emitted_runs(r.self)

\* The process after one unfolded token: the group compile() emits for that
\* token alone.
unit(e, token) ==
    CASE token = ">" -> exec_shift(e, 1)
      [] token = "<" -> exec_shift(e, -1)
      [] token = "+" -> exec_mutate(e, 1)
      [] token = "-" -> exec_mutate(e, -1)

\* The process after the tokens of run, one at a time, each unit move with
\* its own check; an abort (or a fault) ends it.
RECURSIVE unfolded(_, _)
unfolded(e, run) ==
    IF run = <<>> \/ e.pc # "run" THEN e
    ELSE unfolded(unit(e, Head(run)), Tail(run))

\* C5: executing the folded group of a run of moves (or of mutations) leaves
\* the same pointer, the same cells and the same abort / no abort outcome as
\* executing the run token by token.
C5_FoldingPreserved ==
    [][at_group({"addl", "subl", "addb", "subb"}) =>
          LET run == emitted_runs(BFCompiler(bfc.source, bfc.num_cells))[exe.ip - 1]
              u == unfolded(exe, run)
          IN /\ exe'.mem = u.mem
             /\ (exe'.pc = "abort") = (u.pc = "abort")]_vars

\* C6: in the interpreter the pointer is within 0 .. cells-1 whenever a token
\* is about to execute; a move-right that makes it equal to the cell count
\* fails with "pointer out of range (<cells>)", a move-left that makes it
\* negative fails with "pointer out of range (-1)", neither changing a cell or
\* the output; once the interpreter has failed or ended, nothing changes.
C6_PointerBounds ==
    [][/\ bfi'.pc = "run" => bfi'.pointer \in 0 .. bfi'.cells - 1
       /\ (at_token(">") /\ bfi.pointer + 1 = bfi.cells) =>
             /\ bfi'.pc = "exited" /\ bfi'.status = 1
             /\ bfi'.stderr = "pointer out of range" /\ bfi'.index = bfi.cells
             /\ bfi'.machine = bfi.machine /\ bfi'.stdout = bfi.stdout
       /\ (at_token("<") /\ bfi.pointer - 1 < 0) =>
             /\ bfi'.pc = "exited" /\ bfi'.status = 1
             /\ bfi'.stderr = "pointer out of range" /\ bfi'.index = -1
             /\ bfi'.machine = bfi.machine /\ bfi'.stdout = bfi.stdout
       /\ bfi.pc = "exited" => bfi' = bfi]_vars

\* C6's case: the interpreter has failed at the upper bound, after moves that
\* took the pointer over the whole tape.
C6_Witness ==
    /\ bfi.pc = "exited"
    /\ bfi.stderr = "pointer out of range"
    /\ bfi.index = bfi.cells
    /\ bfi.pointer = bfi.cells

\* C7: for a well-formed program construct_tags succeeds, and its map has
\* exactly the bracket indices as its domain, is symmetric, takes every
\* loop-start to a loop-end after it and every loop-end to a loop-start
\* before it, and the tokens between a matched pair are balanced.
C7_TagsWellFormed ==
    (bfi.pc \in {"run", "exited"} /\ Balanced(bfi.source)) =>
        /\ bfi.stderr # "mismatched bracket at index"
        /\ LET M == bfi.loop_tags
               src == bfi.source
           IN /\ DOMAIN M = Brackets(src)
              /\ \A i \in DOMAIN M :
                    /\ M[i] \in DOMAIN M
                    /\ M[M[i]] = i
                    /\ At(src, i) = "[" =>
                          /\ M[i] > i
                          /\ At(src, M[i]) = "]"
                          /\ Balanced(SubSeq(src, i + 2, M[i]))
                    /\ At(src, i) = "]" =>
                          /\ M[i] < i
                          /\ At(src, M[i]) = "["

\* C7's case: the map of a well-formed program with a loop nested in a loop.
C7_Witness ==
    /\ bfi.pc = "run"
    /\ Balanced(bfi.source)
    /\ \E i \in DOMAIN bfi.loop_tags :
          /\ At(bfi.source, i) = "["
          /\ At(bfi.source, i + 1) = "["
          /\ bfi.loop_tags[i] > bfi.loop_tags[i + 1]

\* C8: for a malformed program the interpreter fails in bracket resolution,
\* naming an index within the program at which a bracket stands, with the
\* tape still zero, nothing written, and no input taken.
C8_MalformedRejected ==
    (bfi.pc \in {"run", "exited"} /\ ~Balanced(bfi.source)) =>
        /\ bfi.pc = "exited"
        /\ bfi.status = 1
        /\ bfi.stderr = "mismatched bracket at index"
        /\ bfi.index \in Brackets(bfi.source)
        /\ \A i \in DOMAIN bfi.machine : bfi.machine[i] = 0
        /\ bfi.stdout = <<>>
        /\ bfi.getchars = 0
        /\ bfi.file # NoFile => bfi.stdin = bfi.input

\* C8's case: a malformed program rejected at a bracket that is not its
\* first token, with input waiting.
C8_Witness ==
    /\ bfi.pc = "exited"
    /\ ~Balanced(bfi.source)
    /\ bfi.stderr = "mismatched bracket at index"
    /\ bfi.index > 0
    /\ bfi.stdin # <<>>

\* C9: for a malformed program compile() returns no assembly text: it has
\* not returned, will not reach the end of the source, and ends by raising.
C9_MalformedNotCompiled ==
    ~Balanced(bfc.source) =>
        /\ bfc.assembly = None
        /\ bfc.pc \in {"compile", "raised"}
        /\ bfc.pc = "compile" => bfc.cursor < Len(bfc.source)

\* C9's case: compile() has raised on a malformed program after it had
\* already produced instruction groups.
C9_Witness ==
    /\ ~Balanced(bfc.source)
    /\ bfc.pc = "raised"
    /\ Len(bfc.output) > 1
    /\ bfc.assembly = None

\* The text of s before its first sentinel, and the text behind it.
BeforeSentinel(s) == SubSeq(s, 1, IndexOf(s, "!"))
AfterSentinel(s) == SubSeq(s, IndexOf(s, "!") + 2, Len(s))

\* C10: with the source read from standard input, the program text is the
\* input before the first sentinel, and the program's input is what follows
\* the sentinel, starting with the first character behind it: the rebuffered
\* text, then the rest of standard input.
C10_InputAfterSentinel ==
    (bfi.file = NoFile /\ bfi.pc = "interpret") =>
        /\ bfi.raw = BeforeSentinel(bfi.input)
        /\ bfi.iobuf \o bfi.stdin = AfterSentinel(bfi.input)

\* The net sum of a run of mutation tokens: "+" counts 1, "-" counts -1.
Net(run) == Count(run, "+", Len(run)) - Count(run, "-", Len(run))

\* v and w are the same number modulo 256.
SameMod256(v, w) == \E k \in -4 .. 4 : v = w + 256 * k

\* C11: every cell holds a value in 0 .. 255 in both backends; an interpreter
\* "+" takes 255 to 0 and any other v to v + 1, a "-" takes 0 to 255 and any
\* other v to v - 1; the one folded addb / subb of the compiled program leaves
\* in the cell the value in 0 .. 255 that equals v + q modulo 256, q the net
\* sum of the run of tokens it stands for.
C11_MutationWraps ==
    [][/\ \A i \in DOMAIN bfi'.machine : bfi'.machine[i] \in 0 .. 255
       /\ \A off \in DOMAIN exe'.mem : exe'.mem[off] \in 0 .. 255
       /\ at_token("+") =>
             bfi'.machine = [bfi.machine EXCEPT
                                ![bfi.pointer] = IF @ = 255 THEN 0 ELSE @ + 1]
       /\ at_token("-") =>
             bfi'.machine = [bfi.machine EXCEPT
                                ![bfi.pointer] = IF @ = 0 THEN 255 ELSE @ - 1]
       /\ (at_group({"addb", "subb"}) /\ pointer_of(exe) \in 0 .. exe.cells - 1) =>
             LET run == emitted_runs(BFCompiler(bfc.source, bfc.num_cells))[exe.ip - 1]
                 p == pointer_of(exe)
             IN /\ group.n = (IF Net(run) < 0 THEN -Net(run) ELSE Net(run))
                /\ (group.op = "addb") = (Net(run) > 0)
                /\ SameMod256(exe'.mem[p], exe.mem[p] + Net(run))
                /\ \A off \in DOMAIN exe.mem \ {p} : exe'.mem[off] = exe.mem[off]]_vars

\* C11's case: the program +[+] has ended in both backends with the cell at
\* 0, which it reaches only by the step from 255.
C11_Witness ==
    /\ bfi.source = <<"+", "[", "+", "]">>
    /\ bfi.pc = "exited" /\ bfi.status = 0
    /\ bfi.machine[0] = 0
    /\ exe.pc = "exited"
    /\ exe.mem[0] = 0

\* The classes of tokens that are folded.
MoveTokens == {"<", ">"}
MutationTokens == {"+", "-"}

\* The 0-based index just past the maximal run of tokens of class that starts
\* at index i of s.
RunEnd(s, i, class) ==
    CHOOSE j \in i + 1 .. Len(s) :
        /\ \A k \in i .. j - 1 : At(s, k) \in class
        /\ j = Len(s) \/ At(s, j) \notin class

\* The one group that stands for a run of net sum q, or nothing when q = 0.
FoldedGroup(class, q) ==
    IF q = 0 THEN <<>>
    ELSE <<[op |-> IF class = MoveTokens
                   THEN IF q > 0 THEN "addl" ELSE "subl"
                   ELSE IF q > 0 THEN "addb" ELSE "subb",
            n |-> IF q > 0 THEN q ELSE -q]>>

\* C12: when compile()'s cursor stands on a move token (a mutation token),
\* one pass of its loop leaves the cursor just past the maximal run of move
\* (mutation) tokens that starts there, and adds to the output nothing when
\* the run's net sum is 0 and otherwise exactly one group with the magnitude
\* and the direction of the net sum.
C12_MaximalRunFolded ==
    [][\A class \in {MoveTokens, MutationTokens} :
          (/\ bfc.pc = "compile"
           /\ bfc.cursor < Len(bfc.source)
           /\ At(bfc.source, bfc.cursor) \in class) =>
             LET end == RunEnd(bfc.source, bfc.cursor, class)
                 run == SubSeq(bfc.source, bfc.cursor + 1, end)
                 plus == IF class = MoveTokens THEN ">" ELSE "+"
                 q == 2 * Count(run, plus, Len(run)) - Len(run)
             IN /\ bfc'.pc = "compile"
                /\ bfc'.cursor = end
                /\ bfc'.consumed = Len(run)
                /\ bfc'.output = bfc.output \o FoldedGroup(class, q)]_vars

\* C12's case: a run of four tokens that cancels out was consumed in one
\* pass, and nothing but the header is in the output.
C12_Witness ==
    /\ bfc.pc = "compile"
    /\ Len(bfc.source) = 4
    /\ bfc.cursor = 4
    /\ bfc.consumed = 4
    /\ bfc.quantity = 0
    /\ bfc.output = produce_header(bfc)

\* The bytes the interpreter's input channel still holds: the replayed text,
\* then the rest of standard input.
Channel(self) == EncodeAll(self.iobuf \o self.stdin)

\* C13: an interpreter input token takes exactly one byte from the input
\* channel and stores it in the cell at the pointer, every other cell and the
\* pointer unchanged; when the channel is exhausted it fails with the
\* end-of-input error and no cell is modified; after a failure no token
\* executes.
C13_InputTakesOneByte ==
    [][/\ at_token(",") =>
             IF Channel(bfi) # <<>>
             THEN /\ bfi'.pc = "run"
                  /\ Channel(bfi') = Tail(Channel(bfi))
                  /\ bfi'.machine = [bfi.machine EXCEPT
                                         ![bfi.pointer] = Head(Channel(bfi))]
                  /\ bfi'.pointer = bfi.pointer
                  /\ bfi'.cursor = bfi.cursor + 1
             ELSE /\ bfi'.pc = "exited"
                  /\ bfi'.status = 1
                  /\ bfi'.stderr = "reached eof when scanning for input"
                  /\ bfi'.machine = bfi.machine
       /\ (bfi.pc = "exited" /\ bfi.getchars > 0) => bfi'.cursor = bfi.cursor]_vars

\* C14: the program leaves its instruction groups for the exit path only by
\* the "call cleanup" that stands behind its last token; cleanup goes on to
\* drain the input if and only if an input token was executed; a drain reads
\* chunks of buf_size until a read comes back short; and a process that has
\* exited this way has status 0, has drained if and only if it executed an
\* input token, and then has left nothing in the input.
C14_CleanupDrainsIffRead ==
    [][/\ (exe.pc = "run" /\ exe'.pc \in {"clearbuf", "exit"}) =>
             /\ exe.ip = Len(exe.program)
             /\ group = [op |-> "call", target |-> "cleanup"]
             /\ (exe'.pc = "clearbuf") = exe.commas
       /\ exe.pc = "clearbuf" =>
             /\ exe'.pc = (IF Len(exe.stdin) >= exe.buf_size
                           THEN "clearbuf" ELSE "exit")
             /\ exe'.stdin = SubSeq(exe.stdin, Min(exe.buf_size, Len(exe.stdin)) + 1,
                                    Len(exe.stdin))
       /\ (exe'.pc = "exited" /\ ~exe'.aborted) =>
             /\ exe'.status = 0
             /\ (exe'.drains > 0) = exe'.commas
             /\ exe'.commas => exe'.stdin = <<>>]_vars

\* C14's case: a program that executed an input token has drained an input
\* of more than two chunks and exited.
C14_Witness ==
    /\ exe.pc = "exited"
    /\ exe.commas
    /\ exe.drains >= 3
    /\ exe.stdin = <<>>
    /\ exe.status = 0

\* The positions of text at which one of the eight symbols stands.
SymbolPositions(text) ==
    {i \in 1 .. Len(text) : text[i] \in {"<", ">", "[", "]", ".", ",", "+", "-"}}

\* r is the subsequence of the symbols of text, in their order: the k-th
\* element of r is the symbol at the k-th symbol position of text.
IsSymbolsOf(r, text) ==
    /\ Len(r) = Cardinality(SymbolPositions(text))
    /\ \A i \in SymbolPositions(text) :
          r[Cardinality({j \in SymbolPositions(text) : j <= i})] = text[i]

\* C15: on the same source text BFCompiler.normalize (the compiler's source)
\* and clean_source (the interpreter's source) give the same result, the
\* subsequence of the symbols of the text in their order, and each of them
\* applied to that result returns it unchanged.
C15_NormalizeIdempotent ==
    (bfc.pc # "off" /\ bfi.pc \in {"run", "exited"}) =>
        /\ bfc.source = bfi.source
        /\ IsSymbolsOf(bfc.source, bfi.file)
        /\ IsSymbolsOf(bfi.source, bfi.file)
        /\ normalize(bfc.source) = bfc.source
        /\ clean_source(bfi.source) = bfi.source
        /\ clean_source(bfc.source) = normalize(bfi.source)

\* C15's case: a source text with a comment character between two symbols,
\* an input token among them, has been normalized by both tools.
C15_Witness ==
    /\ bfc.pc # "off"
    /\ bfi.pc \in {"run", "exited"}
    /\ Len(bfi.file) = 3
    /\ bfi.file[1] = ","
    /\ bfi.file[2] = "!"
    /\ bfi.file[3] \in VALID_TOKENS
    /\ Len(bfi.source) = 2

\* The loop-end that closes the loop-start at 0-based index i of src: the
\* first loop-end behind i with balanced tokens in between.
CloseOf(src, i) ==
    CHOOSE j \in i + 1 .. Len(src) - 1 :
        /\ At(src, j) = "]"
        /\ Balanced(SubSeq(src, i + 2, j))
        /\ \A k \in i + 1 .. j - 1 :
              ~(At(src, k) = "]" /\ Balanced(SubSeq(src, i + 2, k)))

\* The loop-start that the loop-end at index j of src closes.
OpenOf(src, j) ==
    CHOOSE i \in 0 .. j - 1 : At(src, i) = "[" /\ CloseOf(src, i) = j

\* C16: a loop-start step with the cell at 0 continues with the token behind
\* the matched loop-end; a loop-end step with the cell not 0 continues with
\* the token behind the matched loop-start; every other step that does not
\* fail continues with the next token; a loop token changes neither the
\* pointer nor a cell.
C16_LoopJumps ==
    [][bfi.pc = "run" /\ bfi.cursor < Len(bfi.source) =>
          LET char == At(bfi.source, bfi.cursor)
              cell == bfi.machine[bfi.pointer]
          IN /\ (char = "[" /\ cell = 0) =>
                    bfi'.cursor = CloseOf(bfi.source, bfi.cursor) + 1
             /\ (char = "]" /\ cell # 0) =>
                    bfi'.cursor = OpenOf(bfi.source, bfi.cursor) + 1
             /\ (/\ ~(char = "[" /\ cell = 0)
                 /\ ~(char = "]" /\ cell # 0)
                 /\ bfi'.pc = "run") =>
                    bfi'.cursor = bfi.cursor + 1
             /\ char \in {"[", "]"} =>
                    /\ bfi'.pc = "run"
                    /\ bfi'.pointer = bfi.pointer
                    /\ bfi'.machine = bfi.machine]_vars

\* C16's case: the program [.]++[.-] has skipped its first loop (nothing was
\* written with the cell at 0) and gone twice through its second.
C16_Witness ==
    /\ bfi.source = <<"[", ".", "]", "+", "+", "[", ".", "-", "]">>
    /\ bfi.pc = "exited"
    /\ bfi.status = 0
    /\ bfi.stdout = <<2, 1>>

\* C17: across an input token of the compiled program, only the cell at
\* region[pointer] and the has_read flag may change: the pointer and every
\* other tape cell keep their values.
C17_CommaprocFrame ==
    [][(at_group({"call"}) /\ group.target = "commaproc") =>
          /\ pointer_of(exe') = pointer_of(exe)
          /\ \A cell \in (0 .. exe.cells - 1) \ {pointer_of(exe)} :
                exe'.mem[cell] = exe.mem[cell]]_vars

\* The positions in an assembly text of the groups that define label tag_i.
DefinitionsOf(assembly, i) ==
    {k \in 1 .. Len(assembly) :
        assembly[k].op \in {"je", "jne"} /\ assembly[k].label = <<"tag", i>>}

\* C18: in an assembly text that compile() has returned, tag_i is defined
\* exactly once for every bracket index i of the normalized source, no loop
\* group defines a label of another index, and every jump target of a loop
\* group is one of the labels defined.
C18_LabelsUnique ==
    bfc.pc = "returned" =>
        /\ \A i \in Brackets(bfc.source) :
              Cardinality(DefinitionsOf(bfc.assembly, i)) = 1
        /\ \A k \in 1 .. Len(bfc.assembly) :
              LET g == bfc.assembly[k]
              IN g.op \in {"je", "jne"} =>
                    /\ g.label[1] = "tag"
                    /\ g.label[2] \in Brackets(bfc.source)
                    /\ g.target[1] = "tag"
                    /\ g.target[2] \in Brackets(bfc.source)
                    /\ DefinitionsOf(bfc.assembly, g.target[2]) # {}

\* C18's case: compile() has returned the text of a program with two loops
\* inside a loop.
C18_Witness ==
    /\ bfc.pc = "returned"
    /\ bfc.assembly # None
    /\ Cardinality(Brackets(bfc.source)) = 6

\* C19: compile() terminates for every source, by returning or by raising;
\* every pass that emits moves the cursor forward and never beyond the length
\* of the normalized source, so that the passes consume the tokens one run
\* after the other, each token once; it returns only with the cursor at the
\* end; and for an empty normalized source it returns the header followed by
\* the call of cleanup and nothing else.
C19_CompileTerminates ==
    /\ [][bfc.pc = "compile" =>
             /\ bfc'.source = bfc.source
             /\ bfc'.cursor \in 0 .. Len(bfc.source)
             /\ bfc'.pc = "compile" => bfc'.cursor > bfc.cursor
             /\ bfc'.pc = "returned" =>
                    /\ bfc.cursor = Len(bfc.source)
                    /\ bfc'.cursor = bfc.cursor
                    /\ bfc.source = <<>> =>
                           bfc'.assembly = produce_header(bfc)
                               \o <<[op |-> "call", target |-> "cleanup"]>>]_vars
    /\ <>(bfc.pc \in {"returned", "raised"})

\* C19's case: compile() has returned after passes over the five tokens of
\* +[>+], a loop among them.
C19_Witness ==
    /\ bfc.pc = "returned"
    /\ bfc.source = <<"+", "[", ">", "+", "]">>
    /\ bfc.cursor = 5
    /\ Len(bfc.assembly) = 7

\* C20: for every finite standard input, one that ends without a sentinel
\* included, read_until_char eventually returns: main() goes on to
\* interpret().  (At the end of input sys.stdin.read returns "" and an
\* iteration of the loop changes nothing: a behaviour that stays in that
\* state for ever is the loop running for ever.)
C20_ReadUntilCharReturns == <>(bfi.pc = "interpret")

====
